---- MODULE Spec2Model ----
(***************************************************************************)
(* Model of testtiles/generator.py: the tile-pyramid generator.            *)
(*                                                                         *)
(* One run of generate_tileset is a depth-first walk of a quadtree.  The   *)
(* recursion of generate_tiles is an explicit stack of frames; every file  *)
(* the run opens for writing is appended to `log` (path and content).      *)
(*                                                                         *)
(* Representation:                                                         *)
(*   - a TileBounds object is its gridcode, a sequence over 0..3;          *)
(*   - an optional value is <<>> (Python None) or <<v>>;                   *)
(*   - a datetime is [s, ms]: whole seconds since the epoch and the        *)
(*     sub-second part in milliseconds; timestamps are in milliseconds;    *)
(*   - a directory is 0 for OUTDIR and N for OUTDIR/sub/seriesgroup=N;     *)
(*   - a file name is [base, range, coords]: coords is the "zoom,x,y" part *)
(*     and range the "start,end" prefix (<<>> when the name has none).     *)
(***************************************************************************)
EXTENDS Integers, Sequences, FiniteSets, TLC

VARIABLES
    levels,            \* argument: None or <<n>>
    start,             \* argument: datetime
    extent,            \* argument: window length in milliseconds
    extent_count,      \* argument: None or <<n>>
    point_count,       \* argument
    maxzoom,           \* TileBounds.maxzoom of the quadtree in use
    pc,                \* position in generate_tileset: "start", "walk", "done"
    run,               \* 1 for the first run, 2 for the second
    series_generator,  \* the SeriesGenerator object
    stack,             \* active generate_tiles frames, innermost last
    dirs,              \* directories that exist
    log,               \* files written by the current run, in order
    prev_log,          \* files written by the previous run
    qkey,              \* argument of a stand-alone quadtree2google call
    qout               \* its result, <<>> before the call

vars == <<levels, start, extent, extent_count, point_count, maxzoom, pc, run,
          series_generator, stack, dirs, log, prev_log, qkey, qout>>

inputs == <<levels, start, extent, extent_count, point_count, maxzoom>>

-----------------------------------------------------------------------------
(* Bounds of the model *)

MaxLevels == 2
MaxZoom == 2
MaxWindows == 2
MaxPoints == 1
MaxKeyLen == 4

None == <<>>
Some(v) == <<v>>

RECURSIVE Keys(_)
Keys(n) == IF n = 0 THEN {<<>>}
           ELSE LET shorter == Keys(n - 1)
                IN shorter \cup {Append(k, d) : k \in {q \in shorter : Len(q) = n - 1}, d \in 0..3}

-----------------------------------------------------------------------------
(* SeriesGenerator *)

\* the generator object of an earlier run kept in use
SeriesGenerator_shared == series_generator

SeriesGenerator == [series |-> 0, series_group |-> 0]

\* the counter is returned without being advanced
new_series_stuck(g) ==
    [gen |-> g, ret |-> g.series + 1]

new_series(g) ==
    [gen |-> [g EXCEPT !.series = @ + 1], ret |-> g.series + 1]

\* the value before the increment is returned
new_series_group_post(g) ==
    [gen |-> [g EXCEPT !.series_group = @ + 1], ret |-> g.series_group]

new_series_group(g) ==
    [gen |-> [g EXCEPT !.series_group = @ + 1], ret |-> g.series_group + 1]

\* the series counter is read in place of the seriesgroup counter
current_series_group_series(g) == g.series

current_series_group(g) == g.series_group

-----------------------------------------------------------------------------
(* Time conversions *)

\* (d - EPOCH).total_seconds(), kept in milliseconds
datetime2timestamp(d) == d.s * 1000 + d.ms

\* datetime.datetime.utcfromtimestamp, from milliseconds
utcfromtimestamp(t) == [s |-> t \div 1000, ms |-> t % 1000]

\* d.strftime("%Y-%m-%dT%H:%M:%S"): the sub-second part is dropped
strftime(d) == d.s

-----------------------------------------------------------------------------
(* quadtree2google *)

RECURSIVE ScanX(_, _)
ScanX(key, x) ==
    IF key = <<>> THEN x
    ELSE ScanX(Tail(key), 2 * x + (IF Head(key) = 1 \/ Head(key) = 3 THEN 1 ELSE 0))

RECURSIVE ScanY(_, _)
ScanY(key, y) ==
    IF key = <<>> THEN y
    ELSE ScanY(Tail(key), 2 * y + (IF Head(key) = 2 \/ Head(key) = 3 THEN 1 ELSE 0))

\* x and y exchanged
quadtree2google_swapped(key) == <<Len(key), ScanY(key, 0), ScanX(key, 0)>>

quadtree2google(key) == <<Len(key), ScanX(key, 0), ScanY(key, 0)>>

-----------------------------------------------------------------------------
(* Files *)

FileWrite(dir, base, range, coords, data, time_range, meta, te, node, win) ==
    [path |-> [dir |-> dir, base |-> base, range |-> range, coords |-> coords],
     data |-> data, time_range |-> time_range, meta |-> meta,
     temporalExtents |-> te, node |-> node, win |-> win]

\* tile_bounds ignored
filename_bounds_point(tile_bounds, point_bounds) == point_bounds

\* `tile_bounds or point_bounds`: a TileBounds object is truthy, None is not
filename_bounds(tile_bounds, point_bounds) ==
    IF tile_bounds # None THEN tile_bounds[1] ELSE point_bounds

\* the window's start used for both ends
filename_range_start(time_range) ==
    <<strftime(time_range[1]), strftime(time_range[1])>>

\* the "start,end" prefix of a temporal tile's name
filename_range(time_range) ==
    <<strftime(time_range[1]), strftime(time_range[2])>>

\* the loop over idx: two records per index, each with a fresh series
RECURSIVE tile_data(_, _, _, _)
tile_data(g, idx, points, data) ==
    IF idx >= points THEN [gen |-> g, data |-> data]
    ELSE LET a == new_series(g)
             itemA == [seriesgroup |-> current_series_group(g),
                       series |-> a.ret, idx |-> idx]
             b == new_series(a.gen)
             itemB == [seriesgroup |-> current_series_group(a.gen),
                       series |-> b.ret, idx |-> idx]
         IN tile_data(b.gen, idx + 1, points, data \o <<itemA, itemB>>)

\* generate_tile: the generator after the call and the file written.
\* The content keeps time_range in milliseconds (<<>> stands for the
\* default (0, DEFAULT_EXTENT) of a non-temporal tile).
generate_tile(outdir, g, point_bounds, tile_bounds, time_range, points, win) ==
    LET coords == quadtree2google(filename_bounds(tile_bounds, point_bounds))
        range == IF time_range = None THEN <<>> ELSE filename_range(time_range[1])
        tr == IF time_range = None THEN <<>>
              ELSE <<datetime2timestamp(time_range[1][1]),
                     datetime2timestamp(time_range[1][2])>>
        d == tile_data(g, 0, points, <<>>)
    IN [gen |-> d.gen,
        write |-> FileWrite(outdir, "tile", range, coords, d.data, tr, <<>>,
                            FALSE, point_bounds, win)]

generate_info(outdir, series_group, node) ==
    FileWrite(outdir, "info", <<>>, <<>>, <<>>, <<>>,
              <<series_group, series_group % 7>>, FALSE, node, None)

generate_header(outdir, title, tmin, tmax, temporalExtents, node) ==
    FileWrite(outdir, "header", <<>>, <<>>, <<>>, <<>>,
              <<title, datetime2timestamp(tmin), datetime2timestamp(tmax)>>,
              temporalExtents, node, None)

-----------------------------------------------------------------------------
(* generate_tileset *)

time_min == start

time_max ==
    LET n == IF extent_count = None \/ extent_count = Some(0) THEN 1
             ELSE extent_count[1]
    IN utcfromtimestamp(datetime2timestamp(start) + n * extent)

\* `if extent_count:`, which takes a count of zero for an unset one
temporal_truthy == extent_count # None /\ extent_count # Some(0)

\* `extent_count != None`
temporal == extent_count # None

\* the windows counted from one
window_from_one(i) ==
    <<utcfromtimestamp(datetime2timestamp(start) + extent * (i + 1)),
      utcfromtimestamp(datetime2timestamp(start) + extent * (i + 2))>>

\* the i-th window of the loop
window(i) ==
    <<utcfromtimestamp(datetime2timestamp(start) + extent * i),
      utcfromtimestamp(datetime2timestamp(start) + extent * (i + 1))>>

zoom_level(bounds) == Len(bounds)

get_children(bounds) == [d \in 1..4 |-> Append(bounds, d - 1)]

\* `level <= levels`
should_recurse_inclusive(bounds, level) ==
    /\ IF levels = None THEN TRUE ELSE level <= levels[1]
    /\ zoom_level(bounds) < maxzoom

should_recurse(bounds, level) ==
    /\ IF levels = None THEN TRUE ELSE level < levels[1]
    /\ zoom_level(bounds) < maxzoom

Frame(bounds, level) ==
    [bounds |-> bounds, level |-> level, phase |-> "enter", child |-> 1]

top == stack[Len(stack)]

SetTop(f) == [stack EXCEPT ![Len(stack)] = f]

\* the (start, window length) pairs the runs are given
TimeChoices ==
    {<<[s |-> 0, ms |-> 0], 250>>, <<[s |-> 0, ms |-> 0], 500>>,
     <<[s |-> 7, ms |-> 200], 500>>, <<[s |-> 7, ms |-> 200], 1500>>}

Idle == /\ qkey = <<>>
        /\ qout = <<>>

Init ==
    /\ levels \in {None} \cup {Some(n) : n \in 0..MaxLevels}
    /\ extent_count \in {None} \cup {Some(n) : n \in 0..MaxWindows}
    /\ \E t \in IF extent_count \in {None, Some(0)}
               THEN {<<[s |-> 7, ms |-> 200], 1500>>}
               ELSE TimeChoices :
           /\ start = t[1]
           /\ extent = t[2]
    /\ point_count \in 0..MaxPoints
    /\ maxzoom \in 0..MaxZoom
    /\ pc = "start"
    /\ run = 1
    /\ series_generator = [series |-> 0, series_group |-> 0]
    /\ stack = <<>>
    /\ dirs = {}
    /\ log = <<>>
    /\ prev_log = <<>>
    /\ Idle

\* generate_tileset up to the call of generate_tiles on the root
Begin ==
    /\ pc = "start"
    /\ series_generator' = SeriesGenerator
    /\ dirs' = dirs \cup {0}
    /\ stack' = <<Frame(<<>>, 0)>>
    /\ pc' = "walk"
    /\ UNCHANGED <<inputs, run, log, prev_log, qkey, qout>>

\* the loop over the windows, from window i on: two tiles per window
RECURSIVE window_tiles(_, _, _, _, _)
window_tiles(g, bounds, series_group, i, writes) ==
    IF i >= extent_count[1] THEN [gen |-> g, writes |-> writes]
    ELSE LET time_range == window(i)
             t1 == generate_tile(0, g, bounds, None,
                                 Some(time_range), point_count, Some(i))
             t2 == generate_tile(series_group, t1.gen, bounds, Some(<<>>),
                                 Some(time_range), point_count, Some(i))
         IN window_tiles(t2.gen, bounds, series_group, i + 1,
                         writes \o <<t1.write, t2.write>>)

\* the non-temporal branch: two tiles
single_tiles(g, bounds, series_group) ==
    LET t1 == generate_tile(0, g, bounds, None, None, point_count, None)
        t2 == generate_tile(series_group, t1.gen, bounds, Some(<<>>),
                            None, point_count, None)
    IN [gen |-> t2.gen, writes |-> <<t1.write, t2.write>>]

\* generate_tiles up to the recursion: new seriesgroup, subdirectory, header,
\* info, then the tiles written by `tiles`
Visit(tiles) ==
    /\ dirs' = dirs \cup {tiles.series_group}
    /\ series_generator' = tiles.gen
    /\ log' = log \o
          <<generate_header(tiles.series_group, tiles.series_group, time_min,
                            time_max, extent_count # None, top.bounds),
            generate_info(tiles.series_group, tiles.series_group, top.bounds)>>
          \o tiles.writes
    /\ stack' = SetTop([top EXCEPT !.phase = "children"])
    /\ UNCHANGED <<inputs, pc, run, prev_log, qkey, qout>>

VisitTemporal ==
    /\ pc = "walk" /\ stack # <<>> /\ top.phase = "enter"
    /\ temporal
    /\ LET r == new_series_group(series_generator)
           t == window_tiles(r.gen, top.bounds, r.ret, 0, <<>>)
       IN Visit([series_group |-> r.ret, gen |-> t.gen, writes |-> t.writes])

VisitNonTemporal ==
    /\ pc = "walk" /\ stack # <<>> /\ top.phase = "enter"
    /\ ~temporal
    /\ LET r == new_series_group(series_generator)
           t == single_tiles(r.gen, top.bounds, r.ret)
       IN Visit([series_group |-> r.ret, gen |-> t.gen, writes |-> t.writes])

\* the recursive call on the next child
Descend ==
    /\ pc = "walk" /\ stack # <<>> /\ top.phase = "children"
    /\ should_recurse(top.bounds, top.level)
    /\ top.child <= 4
    /\ stack' = Append(SetTop([top EXCEPT !.child = @ + 1]),
                       Frame(get_children(top.bounds)[top.child], top.level + 1))
    /\ UNCHANGED <<inputs, pc, run, series_generator, dirs, log, prev_log, qkey, qout>>

\* generate_tiles returns
Return ==
    /\ pc = "walk" /\ stack # <<>> /\ top.phase = "children"
    /\ ~should_recurse(top.bounds, top.level) \/ top.child > 4
    /\ stack' = SubSeq(stack, 1, Len(stack) - 1)
    /\ UNCHANGED <<inputs, pc, run, series_generator, dirs, log, prev_log, qkey, qout>>

\* the header of the whole tileset, after the walk
Finish ==
    /\ pc = "walk" /\ stack = <<>>
    /\ log' = Append(log, generate_header(0, 0, time_min, time_max,
                                          extent_count # None, <<>>))
    /\ pc' = "done"
    /\ UNCHANGED <<inputs, run, series_generator, stack, dirs, prev_log, qkey, qout>>

\* a second run with the same arguments into another empty directory
Rerun ==
    /\ pc = "done" /\ run = 1
    /\ run' = 2
    /\ prev_log' = log
    /\ log' = <<>>
    /\ dirs' = {}
    /\ pc' = "start"
    /\ UNCHANGED <<inputs, series_generator, stack, qkey, qout>>

Next ==
    \/ Begin
    \/ VisitTemporal
    \/ VisitNonTemporal
    \/ Descend
    \/ Return
    \/ Finish
    \/ Rerun

Spec == Init /\ [][Next]_vars

-----------------------------------------------------------------------------
(* quadtree2google alone, on every key up to MaxKeyLen *)

InitQ ==
    /\ levels = None
    /\ start = [s |-> 0, ms |-> 0]
    /\ extent = 1500
    /\ extent_count = None
    /\ point_count = 0
    /\ maxzoom = 0
    /\ pc = "done"
    /\ run = 2
    /\ series_generator = [series |-> 0, series_group |-> 0]
    /\ stack = <<>>
    /\ dirs = {}
    /\ log = <<>>
    /\ prev_log = <<>>
    /\ qkey \in Keys(MaxKeyLen)
    /\ qout = <<>>

Translate ==
    /\ qout = <<>>
    /\ qout' = quadtree2google(qkey)
    /\ UNCHANGED <<inputs, pc, run, series_generator, stack, dirs, log, prev_log, qkey>>

NextQ == Translate

SpecQ == InitQ /\ [][NextQ]_vars

-----------------------------------------------------------------------------
(* Views of the log used by the properties *)

IsTile(w) == w.path.base = "tile"
IsInfo(w) == w.path.base = "info"
IsHeader(w) == w.path.base = "header"

\* the info files in the order written: one per node entered
Infos == SelectSeq(log, IsInfo)

Visited == {log[w].node : w \in {v \in DOMAIN log : IsInfo(log[v])}}

TileIdx == {w \in DOMAIN log : IsTile(log[w])}

\* the tile files in the order written
Tiles == SelectSeq(log, IsTile)

SeriesOf(w) == {w.data[j].series : j \in DOMAIN w.data}
GroupsOf(w) == {w.data[j].seriesgroup : j \in DOMAIN w.data}

\* a is before b in pre-order: a proper prefix of b, or smaller at the first difference
RECURSIVE PreOrderLess(_, _)
PreOrderLess(a, b) ==
    IF b = <<>> THEN FALSE
    ELSE IF a = <<>> THEN TRUE
    ELSE IF Head(a) # Head(b) THEN Head(a) < Head(b)
    ELSE PreOrderLess(Tail(a), Tail(b))

RECURSIVE Pow2(_)
Pow2(n) == IF n = 0 THEN 1 ELSE 2 * Pow2(n - 1)

\* the number whose binary digits, left to right, are 1 where key has a digit of S
RECURSIVE PosVal(_, _, _)
PosVal(key, S, n) ==
    IF n = 0 THEN 0
    ELSE (IF key[n] \in S THEN Pow2(Len(key) - n) ELSE 0) + PosVal(key, S, n - 1)

Coords(key) == <<Len(key), PosVal(key, {1, 3}, Len(key)), PosVal(key, {2, 3}, Len(key))>>

T0 == start.s * 1000 + start.ms

\* the top-level tiles and the subdirectory tiles of node k, in the order written
TopTilesOf(k) == SelectSeq(log, LAMBDA w : IsTile(w) /\ w.path.dir = 0 /\ w.node = k)
SubTilesOf(k) == SelectSeq(log, LAMBDA w : IsTile(w) /\ w.path.dir # 0 /\ w.node = k)

-----------------------------------------------------------------------------
\* C1: within one run every emitted point record carries a series id that no
\* other emitted record carries, over all nodes, windows and both tiles of a
\* node: the records are numbered 1, 2, 3, ... in the order written, and at
\* the end of the run there are as many series values as records.
C1_SeriesUnique ==
    LET tiles == Tiles
    IN /\ \A t \in DOMAIN tiles :
              /\ Len(tiles[t].data) = 2 * point_count
              /\ \A j \in DOMAIN tiles[t].data :
                     tiles[t].data[j].series = (t - 1) * 2 * point_count + j
       /\ pc = "done" =>
              Cardinality(UNION {SeriesOf(tiles[t]) : t \in DOMAIN tiles})
                  = Len(tiles) * 2 * point_count

C1_Witness ==
    /\ pc = "done" /\ extent_count = Some(2) /\ point_count >= 1
    /\ Len(Infos) >= 5
    /\ Len(Tiles) >= 20
    /\ \A t \in DOMAIN Tiles : Tiles[t].data # <<>>

\* C2: the k-th node entered, in pre-order, gets seriesgroup k, so the ids are
\* distinct and the root gets 1; with levels=1 the root's children get 2..5.
C2_SeriesGroupIsVisitCount ==
    LET infos == Infos
    IN /\ \A j \in DOMAIN infos : infos[j].meta[1] = j /\ infos[j].path.dir = j
       /\ \A j \in DOMAIN infos :
              j > 1 => PreOrderLess(infos[j - 1].node, infos[j].node)
       /\ \A w \in DOMAIN log :
              IsTile(log[w]) =>
                  \A g \in GroupsOf(log[w]) :
                      /\ g \in DOMAIN infos
                      /\ infos[g].node = log[w].node
       /\ (pc = "done" /\ levels = Some(1) /\ maxzoom >= 1) =>
              /\ Len(infos) = 5
              /\ [j \in 1..5 |-> infos[j].node] = <<<<>>, <<0>>, <<1>>, <<2>>, <<3>>>>

C2_Witness ==
    /\ pc = "done" /\ levels = Some(1) /\ maxzoom >= 1 /\ point_count >= 1
    /\ Len(Infos) = 5
    /\ Infos[5].meta[1] = 5 /\ Infos[5].node = <<3>>

C4_Limit == IF levels = None THEN maxzoom
            ELSE IF levels[1] < maxzoom THEN levels[1] ELSE maxzoom

C4_RecursionBound ==
    LET visited == Visited
    IN /\ \A k \in visited : Len(k) <= C4_Limit
       /\ \A f \in DOMAIN stack : stack[f].level = Len(stack[f].bounds)
       /\ pc = "done" =>
              /\ visited = {k \in Keys(maxzoom) : Len(k) <= C4_Limit}
              /\ {k \in visited : \A d \in 0..3 : Append(k, d) \notin visited}
                     = {k \in visited : Len(k) = C4_Limit}
              /\ levels = Some(0) => visited = {<<>>}

C4_Witness ==
    /\ pc = "done" /\ levels = None /\ maxzoom = 2
    /\ Cardinality(Visited) = 21
    /\ <<3, 3>> \in Visited

\* C5: with the window count set to N, every node emits tiles for exactly N
\* windows in ascending order, the i-th being [T0 + i*L, T0 + (i+1)*L):
\* contiguous, and covering [T0, T0 + N*L).
C5_Partition(t, n) ==
    /\ Len(t) = n
    /\ \A j \in DOMAIN t :
           /\ t[j].win = Some(j - 1)
           /\ j > 1 => t[j - 1].time_range[2] = t[j].time_range[1]
    /\ n > 0 => /\ t[1].time_range[1] = T0
                /\ t[n].time_range[2] = T0 + n * extent

C5_Windows ==
    /\ \A w \in DOMAIN log :
           (IsTile(log[w]) /\ log[w].win # None) =>
               log[w].time_range = <<T0 + log[w].win[1] * extent,
                                     T0 + (log[w].win[1] + 1) * extent>>
    /\ (pc = "done" /\ extent_count # None) =>
           \A k \in Visited :
               LET tops == TopTilesOf(k)
                   subs == SubTilesOf(k)
               IN /\ C5_Partition(tops, extent_count[1])
                  /\ C5_Partition(subs, extent_count[1])

C5_Witness ==
    /\ pc = "done" /\ extent_count = Some(2) /\ extent = 1500 /\ start.ms # 0
    /\ <<1>> \in Visited
    /\ Len(TopTilesOf(<<1>>)) = 2
    /\ TopTilesOf(<<1>>)[2].time_range = <<T0 + 1500, T0 + 3000>>

\* C6: quadtree2google gives zoom = length of the key, x with binary digits 1
\* where the key has 1 or 3, y with binary digits 1 where it has 2 or 3; x and
\* y are below 2^zoom; "" -> (0,0,0), "0" -> (1,0,0), "1" -> (1,1,0),
\* "2" -> (1,0,1), "3" -> (1,1,1), "13" -> (2,3,1).
C6_Translation ==
    qout # <<>> =>
        /\ qout = Coords(qkey)
        /\ qout[1] = Len(qkey)
        /\ qout[2] < Pow2(qout[1]) /\ qout[3] < Pow2(qout[1])
        /\ qkey = <<>> => qout = <<0, 0, 0>>
        /\ qkey = <<0>> => qout = <<1, 0, 0>>
        /\ qkey = <<1>> => qout = <<1, 1, 0>>
        /\ qkey = <<2>> => qout = <<1, 0, 1>>
        /\ qkey = <<3>> => qout = <<1, 1, 1>>
        /\ qkey = <<1, 3>> => qout = <<2, 3, 1>>

C6_Witness ==
    /\ qkey = <<1, 3>>
    /\ qout = <<2, 3, 1>>

\* C7 (as stated): for every node and window, the top-level tile and the
\* subdirectory tile hold the same number of records, 2 * point count, and the
\* same identifiers: the same seriesgroup and the same series values.
C7_Pair(w) ==
    /\ w + 1 \in DOMAIN log
    /\ IsTile(log[w + 1])
    /\ log[w + 1].path.dir # 0
    /\ log[w + 1].node = log[w].node
    /\ log[w + 1].win = log[w].win
    /\ Len(log[w].data) = 2 * point_count
    /\ Len(log[w + 1].data) = 2 * point_count
    /\ GroupsOf(log[w + 1]) = GroupsOf(log[w])

C7_SameIdentifiers ==
    \A w \in DOMAIN log :
        (IsTile(log[w]) /\ log[w].path.dir = 0) =>
            /\ C7_Pair(w)
            /\ SeriesOf(log[w + 1]) = SeriesOf(log[w])

\* C7 (amended): the two tiles hold the same number of records, 2 * point
\* count, all with the node's seriesgroup; the series values are not shared:
\* the j-th record of the subdirectory tile has the series of the j-th record
\* of the top-level tile plus 2 * point count.
C7_SameCountAndGroup ==
    \A w \in DOMAIN log :
        (IsTile(log[w]) /\ log[w].path.dir = 0) =>
            /\ C7_Pair(w)
            /\ \A g \in GroupsOf(log[w]) : g = log[w + 1].path.dir
            /\ \A j \in DOMAIN log[w].data :
                   log[w + 1].data[j].series = log[w].data[j].series + 2 * point_count
            /\ SeriesOf(log[w + 1]) \cap SeriesOf(log[w]) = {}

C7_Witness ==
    /\ point_count >= 1 /\ extent_count = Some(2)
    /\ \E w \in TileIdx :
           /\ log[w].path.dir = 0 /\ log[w].node = <<2>> /\ log[w].win = Some(1)
           /\ Len(log[w].data) = 2 * point_count
           /\ log[w + 1].path.dir = 4
           /\ GroupsOf(log[w + 1]) = {4}

\* the "start,end" part of the name of the tile of window i
C8_Range(i) == <<(T0 + i * extent) \div 1000, (T0 + (i + 1) * extent) \div 1000>>

C8_TopName(w) ==
    /\ w.path.range = C8_Range(w.win[1])
    /\ w.path.coords = Coords(w.node)

\* C8 (as stated): in temporal mode the top-level tile is named by the window's
\* start and end followed by the node's "zoom,x,y", and the subdirectory tile
\* by the window range only, without tile coordinates.
C8_SubNameRangeOnly ==
    extent_count # None =>
        \A w \in DOMAIN log :
            IsTile(log[w]) =>
            IF log[w].path.dir = 0 THEN C8_TopName(log[w])
            ELSE /\ log[w].path.range = C8_Range(log[w].win[1])
                 /\ log[w].path.coords = <<>>

\* C8 (amended): the subdirectory tile is named by the window's start and end
\* followed by the coordinates of the root, "0,0,0", whatever the node.
C8_SubNameRootCoords ==
    extent_count # None =>
        \A w \in DOMAIN log :
            IsTile(log[w]) =>
            IF log[w].path.dir = 0 THEN C8_TopName(log[w])
            ELSE /\ log[w].path.range = C8_Range(log[w].win[1])
                 /\ log[w].path.coords = <<0, 0, 0>>

C8_Witness ==
    /\ extent_count = Some(2) /\ extent = 1500
    /\ \E w \in TileIdx :
           /\ log[w].path.dir = 0 /\ log[w].node = <<1, 3>> /\ log[w].win = Some(1)
           /\ log[w].path.coords = <<2, 3, 1>>
           /\ log[w + 1].path.dir # 0 /\ log[w + 1].node = <<1, 3>>
           /\ log[w + 1].path.coords = <<0, 0, 0>>
           /\ log[w + 1].path.range = log[w].path.range

\* C9 (as stated): with the window count set to zero nothing is written: no
\* tile file and no info or header file either.
C9_NoOutput ==
    extent_count = Some(0) => log = <<>>

\* C9 (amended): with the window count set to zero no tile file is written,
\* but every visited node still gets its subdirectory header and info file and
\* the run ends with the top-level header, marked temporal.
C9_NoTilesOnly ==
    extent_count = Some(0) =>
        /\ TileIdx = {}
        /\ \A j \in 1..(Len(log) \div 2) :
               /\ IsHeader(log[2 * j - 1]) /\ log[2 * j - 1].path.dir = j
               /\ IsInfo(log[2 * j]) /\ log[2 * j].path.dir = j
        /\ pc = "done" =>
               /\ Len(log) = 2 * Cardinality(Visited) + 1
               /\ IsHeader(log[Len(log)])
               /\ log[Len(log)].path.dir = 0
               /\ log[Len(log)].temporalExtents

C9_Witness ==
    /\ pc = "done" /\ extent_count = Some(0) /\ point_count >= 1
    /\ Cardinality(Visited) = 5
    /\ Len(log) = 11

\* C10 (as stated): no tile file is overwritten within a run: every tile is
\* written to a path of its own, for every window length of at least 1 ms.
C10_NoOverwrite ==
    extent >= 1 =>
        Cardinality({log[w].path : w \in TileIdx}) = Cardinality(TileIdx)

\* C10 (amended): every tile is written to a path of its own for every window
\* length of at least 500 ms (two windows that start and end within the same
\* second get the same name).
C10_NoOverwriteFromHalfSecond ==
    extent >= 500 =>
        LET tiles == TileIdx
        IN Cardinality({log[w].path : w \in tiles}) = Cardinality(tiles)

C10_Witness ==
    /\ pc = "done" /\ extent = 500 /\ extent_count = Some(2)
    /\ Cardinality(Visited) >= 5
    /\ Cardinality(TileIdx) = 4 * Cardinality(Visited)
    /\ \E v, w \in TileIdx :
           /\ v # w /\ log[v].path.dir = 0 /\ log[w].path.dir = 0
           /\ log[v].node = log[w].node
           /\ log[v].path.range[1] = log[w].path.range[1]

====
